---- MODULE Spec2Model ----
(***************************************************************************)
(* A model of the Sense HAT LED matrix driver (src/src/display.rs): the    *)
(* rgb888 <-> rgb565 codec, the rotation map, the 128-byte frame mirror,   *)
(* the framebuffer device it is written to and the gamma control calls.    *)
(***************************************************************************)
EXTENDS Integers, Naturals, Sequences, FiniteSets, TLC

(* ------------------------------------------------------------------ *)
(* u8 arithmetic                                                        *)
(* ------------------------------------------------------------------ *)

\* Largest value of a u8 (the channel type of Pixel and the frame's byte type).
U8Max == 255

Pow2(k) == IF k = 0 THEN 1 ELSE IF k = 1 THEN 2 ELSE IF k = 2 THEN 4
           ELSE IF k = 3 THEN 8 ELSE IF k = 4 THEN 16 ELSE IF k = 5 THEN 32
           ELSE IF k = 6 THEN 64 ELSE IF k = 7 THEN 128 ELSE 256

Bit(a, i) == (a \div Pow2(i)) % 2

\* a & b, bit by bit
BitwiseAnd(a, b) ==
    Bit(a,0) * Bit(b,0) + 2 * Bit(a,1) * Bit(b,1) + 4 * Bit(a,2) * Bit(b,2)
  + 8 * Bit(a,3) * Bit(b,3) + 16 * Bit(a,4) * Bit(b,4) + 32 * Bit(a,5) * Bit(b,5)
  + 64 * Bit(a,6) * Bit(b,6) + 128 * Bit(a,7) * Bit(b,7)

\* BitwiseAnd over all pairs of bytes, built once: entry 256 * a + b + 1 is a & b.
AndTable ==
    SubSeq([n \in 1..65536 |-> BitwiseAnd((n - 1) \div 256, (n - 1) % 256)], 1, 65536)

\* a & b on u8
BitAnd(a, b) == AndTable[256 * a + b + 1]

\* a | b on u8
BitOr(a, b) == a + b - BitAnd(a, b)

\* a >> k on u8
Shr(a, k) == a \div Pow2(k)

\* a << k on u8: the bits shifted out of the byte are dropped
Shl(a, k) == (a * Pow2(k)) % (U8Max + 1)

(* ------------------------------------------------------------------ *)
(* Colour codec                                                         *)
(* ------------------------------------------------------------------ *)

\* Mutation: the green bits are not carried into the most significant byte.
convert_from_pixel_m(p) ==
    LET r == BitAnd(p[1], 248)
        g == Shr(p[2], 2)
        b == Shr(p[3], 3)
    IN  << r, BitOr(Shl(g, 5), b) >>

\* fn convert_from_pixel(p: Pixel) -> (u8, u8): returns <<msb, lsb>>
convert_from_pixel(p) ==
    LET r == BitAnd(p[1], 248)
        g == Shr(p[2], 2)
        b == Shr(p[3], 3)
    IN  << BitOr(r, Shr(g, 3)), BitOr(Shl(g, 5), b) >>

\* Mutation: the blue field is returned unshifted.
convert_to_pixel_m(msb, lsb) ==
    LET r == BitAnd(msb, 248)
        g == BitOr(Shl(BitAnd(msb, 7), 3), BitAnd(lsb, 224))
        b == BitAnd(lsb, 31)
    IN  << r, Shl(g, 2), b >>

\* fn convert_to_pixel(msb: u8, lsb: u8) -> Pixel
convert_to_pixel(msb, lsb) ==
    LET r == BitAnd(msb, 248)
        g == BitOr(Shl(BitAnd(msb, 7), 3), BitAnd(lsb, 224))
        b == BitAnd(lsb, 31)
    IN  << r, Shl(g, 2), Shl(b, 3) >>

(* ------------------------------------------------------------------ *)
(* Orientation                                                          *)
(* ------------------------------------------------------------------ *)

Orientation == {"Deg0", "Deg90", "Deg180", "Deg270"}

\* Mutation: the 270 degree map forgets to mirror x.
rotation_func_m(ori, x, y) ==
    CASE ori = "Deg0"   -> 2 * (x + 8 * y)
      [] ori = "Deg90"  -> 2 * ((7 - y) + 8 * x)
      [] ori = "Deg180" -> 126 - 2 * (x + 8 * y)
      [] ori = "Deg270" -> 2 * (y + 8 * x)

\* Mutation: the 90 degree map mirrors x instead of y.
rotation_func_m90(ori, x, y) ==
    CASE ori = "Deg0"   -> 2 * (x + 8 * y)
      [] ori = "Deg90"  -> 2 * ((7 - x) + 8 * y)
      [] ori = "Deg180" -> 126 - 2 * (x + 8 * y)
      [] ori = "Deg270" -> 2 * (y + 8 * (7 - x))

\* fn rotation_func(&self, x, y) -> usize, with self.orientation = ori
rotation_func(ori, x, y) ==
    CASE ori = "Deg0"   -> 2 * (x + 8 * y)
      [] ori = "Deg90"  -> 2 * ((7 - y) + 8 * x)
      [] ori = "Deg180" -> 126 - 2 * (x + 8 * y)
      [] ori = "Deg270" -> 2 * (y + 8 * (7 - x))

(* ------------------------------------------------------------------ *)
(* Frames and pixel grids                                               *)
(* ------------------------------------------------------------------ *)

\* [0; 128]
ZeroFrame == [i \in 0..127 |-> 0]

\* The loop of draw: for y in 0..8, for x in 0..8, with i = 2 * (x + 8 * y),
\* temp[cor] = frame[i]; temp[cor + 1] = frame[i + 1].  k counts the cells done.
RECURSIVE DrawLoop(_, _, _, _)
DrawLoop(temp, fr, ori, k) ==
    IF k = 64 THEN temp
    ELSE LET x   == k % 8
             y   == k \div 8
             i   == 2 * k
             cor == rotation_func(ori, x, y)
         IN  DrawLoop([temp EXCEPT ![cor] = fr[i], ![cor + 1] = fr[i + 1]],
                      fr, ori, k + 1)

\* Mutation: the frame is transmitted unrotated whatever the orientation.
draw_m(fr, ori) == fr

\* fn draw(&mut self): the buffer handed to framebuffer.write_frame
draw(fr, ori) ==
    IF ori = "Deg0" THEN fr ELSE DrawLoop(ZeroFrame, fr, ori, 0)

\* Mutation: the two bytes of a cell are read in the wrong order.
get_pixels_m(fr) ==
    [idx \in 0..63 |-> convert_to_pixel(fr[2 * idx], fr[2 * idx + 1])]

\* fn get_pixels(&self) -> [Pixel; 64], reading frame fr
get_pixels(fr) ==
    [idx \in 0..63 |-> convert_to_pixel(fr[2 * idx + 1], fr[2 * idx])]

\* Mutation: the two bytes of a pixel are stored most significant first.
PackFrame_m(pixel_list) ==
    [pos \in 0..127 |->
        LET ml == convert_from_pixel(pixel_list[pos \div 2])
        IN  IF pos % 2 = 0 THEN ml[1] ELSE ml[2]]

\* The loop of set_pixels: frame[pos] = lsb; frame[pos + 1] = msb for pos = 2 * k
PackFrame(pixel_list) ==
    [pos \in 0..127 |->
        LET ml == convert_from_pixel(pixel_list[pos \div 2])
        IN  IF pos % 2 = 0 THEN ml[2] ELSE ml[1]]

\* Mutation: each row is rotated by one cell instead of reversed.
ReverseRows_m(pixels) ==
    [i \in 0..63 |-> pixels[(i \div 8) * 8 + (((i % 8) + 1) % 8)]]

\* pixels[offset..offset + 8].reverse() for offset = 0, 8, ..., 56
ReverseRows(pixels) ==
    [i \in 0..63 |-> pixels[(i \div 8) * 8 + (7 - (i % 8))]]

\* Mutation: the swap copies b over a and leaves b as it was.
Swap_m(pixels, a, b) == [pixels EXCEPT ![a] = pixels[b]]

\* pixels.swap(a, b)
Swap(pixels, a, b) == [pixels EXCEPT ![a] = pixels[b], ![b] = pixels[a]]

\* The loops of flip_v: for i in 0..8, for j in 0..4, swap(i + 8j, i + 56 - 8j).
RECURSIVE SwapRows(_, _)
SwapRows(pixels, k) ==
    IF k = 32 THEN pixels
    ELSE LET i == k \div 4
             offset == (k % 4) * 8
         IN  SwapRows(Swap(pixels, i + offset, i + 56 - offset), k + 1)


(* ------------------------------------------------------------------ *)
(* Bounds and inputs                                                    *)
(* ------------------------------------------------------------------ *)

\* Number of display calls in a run.
MaxOps == 3

\* Largest coordinate handed to set_pixel / get_pixel (the grid ends at 7).
MaxCoord == 8

\* Number of display calls in a run of the codec specification.
MaxStore == 1

\* Number of set/get round trips in a run of the codec specification.
MaxRounds == 2

White == << 255, 255, 255 >>
Red   == << 255, 0, 0 >>
Black == << 0, 0, 0 >>

Colors == { White, Red }

\* Arguments of set_pixel: (x, y, colour).
SetPixelArgs ==
    { << 0, 0 >>, << 7, 5 >>, << MaxCoord, 0 >>, << 2, MaxCoord >> } \X Colors

\* Coordinates read by get_pixel.
Coords == 0..MaxCoord

\* The image of examples/flip.rs
Smile ==
    LET w == White
        b == << 0, 128, 255 >>
        s == << w, w, w, w, w, b, b, b,
                b, w, b, b, w, b, b, b,
                b, b, w, b, w, b, b, b,
                b, b, b, w, w, w, w, w,
                b, w, w, w, w, b, b, w,
                b, b, b, w, b, w, b, w,
                b, b, b, w, b, b, w, w,
                b, b, b, b, b, b, b, w >>
    IN  [i \in 0..63 |-> s[i + 1]]

\* An image of 64 different colours.
Gradient ==
    [i \in 0..63 |-> << (4 * i + 3) % (U8Max + 1), (5 * i + 1) % (U8Max + 1), U8Max - 3 * i >>]

Images == { Smile, Gradient }

\* Arguments of clear.
ClearArgs == { [some |-> FALSE] } \cup { [some |-> TRUE, c |-> k] : k \in Colors }

Uniform(c) == [i \in 0..63 |-> c]

\* Option<Pixel>
None == [some |-> FALSE]
Some(c) == [some |-> TRUE, c |-> c]

\* Result values
Ok == [tag |-> "Ok"]
OkVal(v) == [tag |-> "Ok", val |-> v]
Err(e) == [tag |-> "Err", err |-> e]

(* ------------------------------------------------------------------ *)
(* State                                                                *)
(* ------------------------------------------------------------------ *)

VARIABLES
    frame,        \* Display.frame: [u8; 128]
    orientation,  \* Display.orientation
    fb,           \* the framebuffer device: the buffer of the last write_frame
    written,      \* the device has been written since Display::new
    writes,       \* write_frame calls made by the last call
    op,           \* the last call and its arguments
    ret,          \* what the last call returned
    pre,          \* frame and orientation before the last call
    again,        \* the last call repeats the call before it
    nops,         \* calls made
    dev_gamma,    \* the device's gamma table
    ioctls,       \* control calls issued by the last gamma call
    gop,          \* the last gamma call and its argument
    gret,         \* what the last gamma call returned
    pre_gamma,    \* the device's gamma table before the last gamma call
    cin,          \* codec runs: the pixel given
    cbytes,       \* codec runs: the <<msb, lsb>> of the last conversion
    cres,         \* codec runs: the pixels read back, one per round trip
    cstage        \* codec runs: "pixel" or "bytes"

dvars == << frame, orientation, fb, written, writes, op, ret, pre, again, nops >>
gvars == << dev_gamma, ioctls, gop, gret, pre_gamma >>
cvars == << cin, cbytes, cres, cstage >>
vars  == << dvars, gvars, cvars >>

\* Bookkeeping of a display call: what was called, what it returned, how
\* many device writes it made, and the state it started from.
Called(o, r, w) ==
    /\ op' = o
    /\ ret' = r
    /\ writes' = w
    /\ written' = (written \/ w > 0)
    /\ pre' = [frame |-> frame, orientation |-> orientation]
    /\ again' = (o = op)
    /\ nops' = nops + 1

(* ------------------------------------------------------------------ *)
(* Display                                                              *)
(* ------------------------------------------------------------------ *)

\* Display::new on a located device: frame [0; 128], orientation Deg0.
\* The device shows whatever it showed before.
DisplayNew(shown) ==
    /\ frame = ZeroFrame
    /\ orientation = "Deg0"
    /\ fb = shown
    /\ written = FALSE
    /\ writes = 0
    /\ op = [name |-> "new"]
    /\ ret = Ok
    /\ pre = [frame |-> ZeroFrame, orientation |-> "Deg0"]
    /\ again = FALSE
    /\ nops = 0

\* pub fn set_rotation(&mut self, ori: Orientation, redraw: bool)
set_rotation(ori, redraw) ==
    /\ nops < MaxOps
    /\ orientation' = ori
    /\ frame' = frame
    /\ IF redraw
       THEN /\ fb' = draw(frame, ori)
            /\ Called([name |-> "set_rotation", ori |-> ori, redraw |-> redraw], Ok, 1)
       ELSE /\ fb' = fb
            /\ Called([name |-> "set_rotation", ori |-> ori, redraw |-> redraw], Ok, 0)
    /\ UNCHANGED << gvars, cvars >>

\* pub fn set_pixels(&mut self, pixel_list: &[Pixel; 64])
set_pixels(pixel_list) ==
    /\ nops < MaxOps
    /\ frame' = PackFrame(pixel_list)
    /\ fb' = draw(frame', orientation)
    /\ Called([name |-> "set_pixels", pixel_list |-> pixel_list], Ok, 1)
    /\ UNCHANGED << orientation, gvars, cvars >>

\* pub fn flip_h(&mut self, redraw: bool) -> [Pixel; 64]
flip_h(redraw) ==
    /\ nops < MaxOps
    /\ LET pixels == ReverseRows(get_pixels(frame))
       IN  IF redraw
           THEN /\ frame' = PackFrame(pixels)
                /\ fb' = draw(frame', orientation)
                /\ Called([name |-> "flip_h", redraw |-> redraw], OkVal(pixels), 1)
           ELSE /\ frame' = frame
                /\ fb' = fb
                /\ Called([name |-> "flip_h", redraw |-> redraw], OkVal(pixels), 0)
    /\ UNCHANGED << orientation, gvars, cvars >>

\* pub fn flip_v(&mut self, redraw: bool) -> [Pixel; 64]
flip_v(redraw) ==
    /\ nops < MaxOps
    /\ LET pixels == SwapRows(get_pixels(frame), 0)
       IN  IF redraw
           THEN /\ frame' = PackFrame(pixels)
                /\ fb' = draw(frame', orientation)
                /\ Called([name |-> "flip_v", redraw |-> redraw], OkVal(pixels), 1)
           ELSE /\ frame' = frame
                /\ fb' = fb
                /\ Called([name |-> "flip_v", redraw |-> redraw], OkVal(pixels), 0)
    /\ UNCHANGED << orientation, gvars, cvars >>

\* Mutation: the bounds test lets the coordinate 8 through on y.
OutOfBounds_m(x, y) == x > 7 \/ y > 8

\* if x > 7 || y > 7 of set_pixel and get_pixel
OutOfBounds(x, y) == x > 7 \/ y > 7

\* Mutation: the word is stored most significant byte first.
PutWord_m(fr, pos, ml) == [fr EXCEPT ![pos] = ml[1], ![pos + 1] = ml[2]]

\* frame[pos] = lsb; frame[pos + 1] = msb, for ml = <<msb, lsb>>
PutWord(fr, pos, ml) == [fr EXCEPT ![pos] = ml[2], ![pos + 1] = ml[1]]

\* Mutation: the pixel is stored at the offset the orientation maps (x, y)
\* to, so the frame holds the picture as the device shows it.
set_pixel_m(x, y, p) ==
    /\ nops < MaxOps
    /\ IF OutOfBounds(x, y)
       THEN /\ frame' = frame
            /\ fb' = fb
            /\ Called([name |-> "set_pixel", x |-> x, y |-> y, p |-> p],
                      Err("OutOfBounds"), 0)
       ELSE LET pos == rotation_func(orientation, x, y)
            IN  IF pos < 0 \/ pos + 1 > 127
                THEN /\ frame' = frame
                     /\ fb' = fb
                     /\ Called([name |-> "set_pixel", x |-> x, y |-> y, p |-> p],
                               Err("panic"), 0)
                ELSE /\ frame' = PutWord(frame, pos, convert_from_pixel(p))
                     /\ fb' = frame'
                     /\ Called([name |-> "set_pixel", x |-> x, y |-> y, p |-> p], Ok, 1)
    /\ UNCHANGED << orientation, gvars, cvars >>

\* pub fn set_pixel(&mut self, x: usize, y: usize, p: Pixel) -> DisplayResult<()>
set_pixel(x, y, p) ==
    /\ nops < MaxOps
    /\ IF OutOfBounds(x, y)
       THEN /\ frame' = frame
            /\ fb' = fb
            /\ Called([name |-> "set_pixel", x |-> x, y |-> y, p |-> p],
                      Err("OutOfBounds"), 0)
       ELSE LET pos == 2 * (x + 8 * y)
            IN  IF pos + 1 > 127   \* indexing past the array panics
                THEN /\ frame' = frame
                     /\ fb' = fb
                     /\ Called([name |-> "set_pixel", x |-> x, y |-> y, p |-> p],
                               Err("panic"), 0)
                ELSE /\ frame' = PutWord(frame, pos, convert_from_pixel(p))
                     /\ fb' = draw(frame', orientation)
                     /\ Called([name |-> "set_pixel", x |-> x, y |-> y, p |-> p], Ok, 1)
    /\ UNCHANGED << orientation, gvars, cvars >>

\* pub fn get_pixel(&self, x: usize, y: usize) -> DisplayResult<Pixel>, on
\* frame fr and orientation ori
get_pixel(fr, ori, x, y) ==
    IF OutOfBounds(x, y) THEN Err("OutOfBounds")
    ELSE LET pos == rotation_func(ori, x, y)
         IN  IF pos < 0 \/ pos + 1 > 127 THEN Err("panic")
             ELSE OkVal(convert_to_pixel(fr[pos + 1], fr[pos]))

\* Mutation: the loop of Some(c) stops one cell short, so the last cell
\* keeps the word it had.
clear_m(color) ==
    /\ nops < MaxOps
    /\ frame' = IF color.some
                THEN [pos \in 0..127 |->
                        IF pos < 126 THEN PackFrame(Uniform(color.c))[pos]
                        ELSE frame[pos]]
                ELSE ZeroFrame
    /\ fb' = frame'
    /\ Called([name |-> "clear", color |-> color], Ok, 1)
    /\ UNCHANGED << orientation, gvars, cvars >>

\* pub fn clear(&mut self, color: Option<Pixel>)
clear(color) ==
    /\ nops < MaxOps
    /\ frame' = IF color.some THEN PackFrame(Uniform(color.c)) ELSE ZeroFrame
    /\ fb' = frame'
    /\ Called([name |-> "clear", color |-> color], Ok, 1)
    /\ UNCHANGED << orientation, gvars, cvars >>


(* ------------------------------------------------------------------ *)
(* Gamma                                                                *)
(* ------------------------------------------------------------------ *)

SENSE_HAT_FBIOGET_GAMMA == 61696
SENSE_HAT_FBIOSET_GAMMA == 61697
SENSE_HAT_FBIORESET_GAMMA == 61698
SENSE_HAT_GAMMA_DEFAULT == 0
SENSE_HAT_GAMMA_LOW == 1

Table(s) == [i \in 0..31 |-> s[i + 1]]

\* let low: [u8; 32] of is_low_light
low ==
    Table(<< 0, 1, 1, 1, 1, 1, 1, 1, 1, 1, 1, 1, 1, 2, 2, 2,
             3, 3, 3, 4, 4, 5, 5, 6, 6, 7, 7, 8, 8, 9, 10, 10 >>)

\* The curve the device selects for SENSE_HAT_GAMMA_DEFAULT.
DevGammaDefault ==
    Table(<< 0, 0, 0, 0, 0, 0, 1, 1, 2, 2, 3, 3, 4, 5, 6, 7,
             8, 9, 10, 11, 12, 14, 15, 17, 18, 20, 21, 23, 25, 27, 29, 31 >>)

\* The curve the device selects for SENSE_HAT_GAMMA_LOW.
DevGammaLow == low

\* gamma[..].reverse() of examples/gamma.rs
Reversed(t) == [i \in 0..31 |-> t[31 - i]]

\* Largest entry tried in a table handed to set_gamma (valid entries end at 31).
MaxEntry == 33

GammaIdx == { 0, 15, 31 }
GammaEntries == { 0, 31, U8Max } \cup 32..MaxEntry

GammaInputs ==
    { low, DevGammaDefault, Reversed(DevGammaDefault) }
    \cup { [low EXCEPT ![k] = v] : k \in GammaIdx, v \in GammaEntries }

\* The device's side of ioctl(fd, req, arg): its gamma table afterwards.
DevIoctl(g, req, arg) ==
    CASE req = SENSE_HAT_FBIOSET_GAMMA -> arg
      [] req = SENSE_HAT_FBIORESET_GAMMA ->
            IF arg = SENSE_HAT_GAMMA_LOW THEN DevGammaLow
            ELSE IF arg = SENSE_HAT_GAMMA_DEFAULT THEN DevGammaDefault
            ELSE g
      [] OTHER -> g

GammaNew(g) ==
    /\ dev_gamma = g
    /\ ioctls = << >>
    /\ gop = [name |-> "new"]
    /\ gret = Ok
    /\ pre_gamma = g

\* pub fn gamma(&self) -> [u8; 32]: the buffer after the get-gamma control call
gamma(g) == [i \in 0..31 |-> g[i]]

\* Mutation: the last entry of the table is not examined.
ValidGamma_m(buffer) == \A i \in 0..30 : buffer[i] <= 31

\* buffer.iter().all(|&x| x <= 31)
ValidGamma(buffer) == \A i \in 0..31 : buffer[i] <= 31

\* pub fn set_gamma(&mut self, buffer: &[u8; 32]) -> DisplayResult<()>
set_gamma(buffer) ==
    /\ IF ~ValidGamma(buffer)
       THEN /\ gret' = Err("InvalidGamma")
            /\ ioctls' = << >>
            /\ dev_gamma' = dev_gamma
       ELSE /\ ioctls' = << [req |-> SENSE_HAT_FBIOSET_GAMMA, arg |-> buffer] >>
            /\ dev_gamma' = DevIoctl(dev_gamma, SENSE_HAT_FBIOSET_GAMMA, buffer)
            /\ gret' = Ok
    /\ gop' = [name |-> "set_gamma", buffer |-> buffer]
    /\ pre_gamma' = dev_gamma
    /\ UNCHANGED << dvars, cvars >>

\* pub fn reset_gamma(&mut self)
reset_gamma ==
    /\ ioctls' = << [req |-> SENSE_HAT_FBIORESET_GAMMA, arg |-> SENSE_HAT_GAMMA_DEFAULT] >>
    /\ dev_gamma' = DevIoctl(dev_gamma, SENSE_HAT_FBIORESET_GAMMA, SENSE_HAT_GAMMA_DEFAULT)
    /\ gret' = Ok
    /\ gop' = [name |-> "reset_gamma"]
    /\ pre_gamma' = dev_gamma
    /\ UNCHANGED << dvars, cvars >>

\* pub fn is_low_light(&self) -> bool, on a device whose table is g
is_low_light(g) == gamma(g) = low

\* Mutation: the default curve is requested whatever set_low is.
low_light_m(set_low) ==
    /\ ioctls' = << [req |-> SENSE_HAT_FBIORESET_GAMMA, arg |-> SENSE_HAT_GAMMA_DEFAULT] >>
    /\ dev_gamma' = DevIoctl(dev_gamma, SENSE_HAT_FBIORESET_GAMMA, SENSE_HAT_GAMMA_DEFAULT)
    /\ gret' = Ok
    /\ gop' = [name |-> "low_light", set_low |-> set_low]
    /\ pre_gamma' = dev_gamma
    /\ UNCHANGED << dvars, cvars >>

\* pub fn low_light(&mut self, set_low: bool)
low_light(set_low) ==
    /\ LET cmd == IF set_low THEN SENSE_HAT_GAMMA_LOW ELSE SENSE_HAT_GAMMA_DEFAULT
       IN  /\ ioctls' = << [req |-> SENSE_HAT_FBIORESET_GAMMA, arg |-> cmd] >>
           /\ dev_gamma' = DevIoctl(dev_gamma, SENSE_HAT_FBIORESET_GAMMA, cmd)
    /\ gret' = Ok
    /\ gop' = [name |-> "low_light", set_low |-> set_low]
    /\ pre_gamma' = dev_gamma
    /\ UNCHANGED << dvars, cvars >>

(* ------------------------------------------------------------------ *)
(* Codec runs: a pixel is converted to its two bytes and back           *)
(* ------------------------------------------------------------------ *)

Chan == 0..U8Max
Anchor == { 0, U8Max }

\* Every value of each channel, against the extremes of the other two.
CodecInputs ==
    { << v, a, b >> : v \in Chan, a \in Anchor, b \in Anchor }
    \cup { << a, v, b >> : v \in Chan, a \in Anchor, b \in Anchor }
    \cup { << a, b, v >> : v \in Chan, a \in Anchor, b \in Anchor }

CodecNew(p) ==
    /\ cin = p
    /\ cbytes = << 0, 0 >>
    /\ cres = << >>
    /\ cstage = "pixel"

\* The pixel the next conversion starts from.
CodecPixel == IF cres = << >> THEN cin ELSE cres[Len(cres)]

\* let (msb, lsb) = convert_from_pixel(*pixel)
CodecPack ==
    /\ cstage = "pixel"
    /\ nops = 0
    /\ Len(cres) < MaxRounds
    /\ cbytes' = convert_from_pixel(CodecPixel)
    /\ cstage' = "bytes"
    /\ UNCHANGED << cin, cres, dvars, gvars >>

\* pixels[idx] = convert_to_pixel(msb, lsb)
CodecUnpack ==
    /\ cstage = "bytes"
    /\ cres' = Append(cres, convert_to_pixel(cbytes[1], cbytes[2]))
    /\ cstage' = "pixel"
    /\ UNCHANGED << cin, cbytes, dvars, gvars >>

\* The display calls made with the pixel of the run.
CodecSetPixel ==
    /\ cres = << >> /\ cstage = "pixel" /\ nops < MaxStore
    /\ \E a \in SetPixelArgs : set_pixel(a[1][1], a[1][2], cin)

CodecSetPixels ==
    /\ cres = << >> /\ cstage = "pixel" /\ nops < MaxStore
    /\ set_pixels(Uniform(cin))

CodecClear ==
    /\ cres = << >> /\ cstage = "pixel" /\ nops < MaxStore
    /\ clear(Some(cin))

(* ------------------------------------------------------------------ *)
(* Specifications                                                       *)
(* ------------------------------------------------------------------ *)

\* The display, driven by its public calls.
Init ==
    /\ \E shown \in { ZeroFrame, PackFrame(Uniform(White)) } : DisplayNew(shown)
    /\ GammaNew(DevGammaDefault)
    /\ CodecNew(Black)

Next ==
    \/ \E o \in Orientation, r \in BOOLEAN : set_rotation(o, r)
    \/ \E img \in Images : set_pixels(img)
    \/ \E r \in BOOLEAN : flip_h(r)
    \/ \E r \in BOOLEAN : flip_v(r)
    \/ \E a \in SetPixelArgs : set_pixel(a[1][1], a[1][2], a[2])
    \/ \E c \in ClearArgs : clear(c)

Spec == Init /\ [][Next]_vars

\* The gamma control calls.
InitGamma ==
    /\ DisplayNew(ZeroFrame)
    /\ \E g \in { DevGammaDefault, DevGammaLow } : GammaNew(g)
    /\ CodecNew(Black)

NextGamma ==
    \/ \E t \in GammaInputs : set_gamma(t)
    \/ reset_gamma
    \/ \E b \in BOOLEAN : low_light(b)

SpecGamma == InitGamma /\ [][NextGamma]_vars

\* The codec, on every input of CodecInputs.
InitCodec ==
    /\ DisplayNew(ZeroFrame)
    /\ GammaNew(DevGammaDefault)
    /\ \E p \in CodecInputs : CodecNew(p)

NextCodec ==
    \/ CodecPack
    \/ CodecUnpack
    \/ CodecSetPixel
    \/ CodecSetPixels
    \/ CodecClear

SpecCodec == InitCodec /\ [][NextCodec]_vars


(* ------------------------------------------------------------------ *)
(* Properties                                                           *)
(* ------------------------------------------------------------------ *)

\* What get_pixels reads back for a pixel that set_pixels stored.
RoundTrip(p) == LET ml == convert_from_pixel(p) IN convert_to_pixel(ml[1], ml[2])

\* A pixel with the low 3 bits of red and blue and the low 2 bits of green cleared.
Truncated(p) == << (p[1] \div 8) * 8, (p[2] \div 4) * 4, (p[3] \div 8) * 8 >>

\* ((r >> 3) << 11) | ((g >> 2) << 5) | (b >> 3): the three fields do not
\* overlap, so the bitwise or is their sum.
Pack565(p) == (p[1] \div 8) * 2048 + (p[2] \div 4) * 32 + (p[3] \div 8)

\* The 16-bit little-endian word of cell c of frame fr.
Word(fr, c) == fr[2 * c] + 256 * fr[2 * c + 1]

InBounds == 0..7

\* C1: after set_pixels(P), get_pixels() returns at every index i the
\* channel-wise truncation of P[i] (red and blue lose 3 bits, green 2).
C1_SetGetTruncates ==
    op.name = "set_pixels" =>
        \A i \in 0..63 : get_pixels(frame)[i] = Truncated(op.pixel_list[i])

\* C2: the pixel read back after a second set/get round trip is the pixel read
\* back after the first: Unpack(Pack(p)) is a fixed point of Unpack o Pack.
C2_RoundTripFixedPoint ==
    \A k \in 1..(Len(cres) - 1) : cres[k + 1] = cres[k]

C2_Witness ==
    /\ Len(cres) >= 2
    /\ cres[1] # cin
    /\ cin[2] = 37

\* C3: the bytes (msb, lsb) of convert_from_pixel make the rgb565 word
\* ((r >> 3) << 11) | ((g >> 2) << 5) | (b >> 3), and set_pixel, set_pixels and
\* clear store it little-endian: lsb at byte 2 * cell, msb at byte 2 * cell + 1.
C3_PackedWordLittleEndian ==
    /\ cstage = "bytes" => cbytes[1] * 256 + cbytes[2] = Pack565(CodecPixel)
    /\ (op.name = "set_pixel" /\ ret = Ok) =>
           LET c == op.x + 8 * op.y
           IN  /\ frame[2 * c] = Pack565(op.p) % 256
               /\ frame[2 * c + 1] = Pack565(op.p) \div 256
    /\ op.name = "set_pixels" =>
           \A c \in 0..63 :
               /\ frame[2 * c] = Pack565(op.pixel_list[c]) % 256
               /\ frame[2 * c + 1] = Pack565(op.pixel_list[c]) \div 256
    /\ (op.name = "clear" /\ op.color.some) =>
           \A c \in 0..63 :
               /\ frame[2 * c] = Pack565(op.color.c) % 256
               /\ frame[2 * c + 1] = Pack565(op.color.c) \div 256

C3_Witness ==
    /\ op.name = "set_pixel"
    /\ ret = Ok
    /\ op.p = << 255, 37, 0 >>
    /\ frame[2 * (op.x + 8 * op.y)] = 32
    /\ frame[2 * (op.x + 8 * op.y) + 1] = 249

\* C4: under the current orientation, (x, y) -> rotation_func(x, y) / 2 is a
\* bijection of the 64 cells onto 0..63 (its 64 arguments take 64 different
\* values, which are 0..63), equal to x + 8y, (7 - y) + 8x,
\* 63 - (x + 8y) and y + 8(7 - x) for 0, 90, 180 and 270 degrees, and the byte
\* offset is even and at most 126.
C4_RotationBijection ==
    LET off(x, y) == rotation_func(orientation, x, y)
        cells == { off(x, y) \div 2 : x \in InBounds, y \in InBounds }
    IN  /\ \A x \in InBounds, y \in InBounds :
               /\ off(x, y) % 2 = 0
               /\ off(x, y) >= 0
               /\ off(x, y) <= 126
               /\ off(x, y) \div 2 =
                      CASE orientation = "Deg0"   -> x + 8 * y
                        [] orientation = "Deg90"  -> (7 - y) + 8 * x
                        [] orientation = "Deg180" -> 63 - (x + 8 * y)
                        [] orientation = "Deg270" -> y + 8 * (7 - x)
        /\ cells = 0..63
        /\ Cardinality(cells) = Cardinality(InBounds \X InBounds)

C4_Witness ==
    /\ orientation = "Deg270"
    /\ op.name = "set_rotation"
    /\ rotation_func(orientation, 7, 0) = 0

\* set_pixel(0, 0, (255, 255, 255)) has just succeeded under orientation 90.
C5_Scenario ==
    /\ op.name = "set_pixel"
    /\ op.x = 0 /\ op.y = 0 /\ op.p = White
    /\ ret = Ok
    /\ orientation = "Deg90"

C6_ClearRedReads248_0_248 ==
    (op.name = "clear" /\ op.color = Some(Red)) =>
        /\ get_pixel(frame, orientation, 3, 3) = OkVal(RoundTrip(Red))
        /\ RoundTrip(Red) = << 248, 0, 248 >>

\* C6, amended: after clear(Some((255, 0, 0))), get_pixel(3, 3) returns the
\* pixel read back for (255, 0, 0), and that pixel is (248, 0, 0).
C6_ClearRedReads248_0_0 ==
    (op.name = "clear" /\ op.color = Some(Red)) =>
        /\ get_pixel(frame, orientation, 3, 3) = OkVal(RoundTrip(Red))
        /\ get_pixel(frame, orientation, 3, 3) = OkVal(<< 248, 0, 0 >>)

C6_Witness ==
    /\ op.name = "clear"
    /\ op.color = Some(Red)
    /\ orientation = "Deg270"
    /\ pre.frame # ZeroFrame

\* C7: once the device has been written, get_pixel(x, y) returns, for every
\* in-bounds (x, y) and under every orientation, the pixel at (x, y) of the
\* displayed image: the word at cell x + 8y of the frame last transmitted.
C7_GetPixelReadsDisplayed ==
    written =>
        \A x \in InBounds, y \in InBounds :
            get_pixel(frame, orientation, x, y)
                = OkVal(convert_to_pixel(fb[2 * (x + 8 * y) + 1], fb[2 * (x + 8 * y)]))

\* C8: a flip_h(true) that follows a flip_h(true) returns the grid get_pixels()
\* gave before the first of the two, and get_pixels() gives that grid again
\* afterwards; the same for flip_v(true).
C8_FlipTwiceRestores ==
    [][ ( /\ op.name \in { "flip_h", "flip_v" }
          /\ op.redraw
          /\ op' = op
          /\ nops' = nops + 1 )
        => ( /\ ret'.val = get_pixels(pre.frame)
             /\ get_pixels(frame') = get_pixels(pre.frame) ) ]_vars

C8_Witness ==
    /\ op = [name |-> "flip_h", redraw |-> TRUE]
    /\ again
    /\ ret.val = get_pixels(frame)
    /\ ret.val # ReverseRows(ret.val)

\* C9: set_pixel and get_pixel return OutOfBounds exactly when x > 7 or y > 7,
\* and a set_pixel that returns OutOfBounds leaves the frame and the
\* orientation as they were and writes nothing to the device.
C9_OutOfBounds ==
    /\ \A x \in Coords, y \in Coords :
           (get_pixel(frame, orientation, x, y) = Err("OutOfBounds")) <=> (x > 7 \/ y > 7)
    /\ op.name = "set_pixel" =>
           /\ (ret = Err("OutOfBounds")) <=> (op.x > 7 \/ op.y > 7)
           /\ ret = Err("OutOfBounds") =>
                  /\ frame = pre.frame
                  /\ orientation = pre.orientation
                  /\ writes = 0

C9_Witness ==
    /\ op.name = "set_pixel"
    /\ op.y > 7
    /\ ret = Err("OutOfBounds")
    /\ pre.frame # ZeroFrame
    /\ pre.orientation # "Deg0"

C11_LowLightReadsBack ==
    gop.name = "low_light" =>
        /\ is_low_light(dev_gamma) = gop.set_low
        /\ ioctls = << [req |-> SENSE_HAT_FBIORESET_GAMMA,
                        arg |-> IF gop.set_low THEN SENSE_HAT_GAMMA_LOW
                                ELSE SENSE_HAT_GAMMA_DEFAULT] >>

C11_Witness ==
    /\ gop = [name |-> "low_light", set_low |-> TRUE]
    /\ pre_gamma = Reversed(DevGammaDefault)
    /\ is_low_light(dev_gamma)
    /\ ~is_low_light(pre_gamma)

\* The frame a call leaves, from the frame it started on and its arguments
\* alone: the orientation is no input.
FrameAfter(fr, o) ==
    CASE o.name = "set_pixels" -> PackFrame(o.pixel_list)
      [] o.name = "flip_h" ->
            IF o.redraw THEN PackFrame(ReverseRows(get_pixels(fr))) ELSE fr
      [] o.name = "flip_v" ->
            IF o.redraw THEN PackFrame(SwapRows(get_pixels(fr), 0)) ELSE fr
      [] o.name = "set_pixel" ->
            IF o.x \in InBounds /\ o.y \in InBounds
            THEN PutWord(fr, 2 * (o.x + 8 * o.y), convert_from_pixel(o.p))
            ELSE fr
      [] o.name = "clear" ->
            IF o.color.some THEN PackFrame(Uniform(o.color.c)) ELSE ZeroFrame
      [] OTHER -> fr

\* C12: the frame does not depend on the orientation. A set_rotation call,
\* redrawing or not, leaves the frame as it was, and the frame every other
\* call leaves is decided by the frame it started on and its arguments, the
\* same under each of the four orientations; so two runs of calls that differ
\* only in their set_rotation calls end on the same frame.
C12_FrameIgnoresOrientation ==
    /\ op.name = "set_rotation" => frame = pre.frame
    /\ frame = FrameAfter(pre.frame, op)

C12_Witness ==
    /\ op.name = "set_pixel"
    /\ ret = Ok
    /\ pre.orientation = "Deg270"
    /\ pre.frame # ZeroFrame
    /\ frame # pre.frame
    /\ fb # frame

\* C13: whatever the frame held and whatever the orientation, right after
\* clear(None) get_pixels() is 64 times (0, 0, 0), and right after
\* clear(Some(c)) get_pixels() is 64 times the round trip of c and
\* get_pixel(x, y) returns the round trip of c for every x, y in 0..7.
C13_ClearUniform ==
    op.name = "clear" =>
        LET v == IF op.color.some THEN RoundTrip(op.color.c) ELSE Black
        IN  /\ get_pixels(frame) = [idx \in 0..63 |-> v]
            /\ op.color.some =>
                    \A x \in InBounds, y \in InBounds :
                        get_pixel(frame, orientation, x, y) = OkVal(v)

C13_Witness ==
    /\ op.name = "clear"
    /\ op.color = Some(White)
    /\ orientation = "Deg90"
    /\ get_pixels(pre.frame) # get_pixels(frame)
    /\ pre.frame # ZeroFrame
    /\ get_pixel(frame, orientation, 7, 7) = OkVal(RoundTrip(White))

\* C14: with G the pixels get_pixels() gives before the call, flip_h(redraw)
\* returns G' with G'[x + 8y] = G[(7 - x) + 8y] and flip_v(redraw) returns G'
\* with G'[x + 8y] = G[x + 8(7 - y)], for both values of redraw; with redraw
\* false the call leaves the frame as it was and writes nothing to the device.
C14_FlipReturns ==
    op.name \in { "flip_h", "flip_v" } =>
        LET G == get_pixels(pre.frame)
        IN  /\ ret.val = [i \in 0..63 |->
                            LET x == i % 8
                                y == i \div 8
                            IN  IF op.name = "flip_h" THEN G[(7 - x) + 8 * y]
                                ELSE G[x + 8 * (7 - y)]]
            /\ ~op.redraw => /\ frame = pre.frame
                              /\ writes = 0

C14_Witness ==
    /\ op = [name |-> "flip_v", redraw |-> FALSE]
    /\ frame = PackFrame(Smile)
    /\ ret.val # get_pixels(frame)
    /\ ret.val[56] = get_pixels(frame)[0]
    /\ writes = 0

\* C15: under every orientation, set by set_rotation with or without a
\* redraw, get_pixels() right after set_pixels(P) gives at every index i the
\* round trip of P[i], in the row-major order of P.
C15_SetPixelsReadsBack ==
    op.name = "set_pixels" =>
        get_pixels(frame) = [i \in 0..63 |-> RoundTrip(op.pixel_list[i])]

C15_Witness ==
    /\ op = [name |-> "set_pixels", pixel_list |-> Gradient]
    /\ orientation = "Deg180"
    /\ nops = 2
    /\ fb # frame
    /\ get_pixels(frame)[1] = RoundTrip(Gradient[1])
    /\ get_pixels(frame)[1] # get_pixels(frame)[62]

\* C16: right after each successful set_pixel, set_pixels, clear, flip_h(true),
\* flip_v(true) or set_rotation(o, true), the buffer last written to the device
\* holds, for every x, y in 0..7, at the offset rotation_func gives (x, y)
\* under the current orientation, the frame's word of cell x + 8y, and under
\* Deg0 it is the frame itself; set_rotation(o, false) writes nothing.
C16_DeviceShowsRotatedFrame ==
    /\ ( \/ op.name \in { "set_pixels", "clear" }
         \/ op.name = "set_pixel" /\ ret = Ok
         \/ op.name \in { "flip_h", "flip_v", "set_rotation" } /\ op.redraw )
       => /\ writes = 1
          /\ \A x \in InBounds, y \in InBounds :
                LET cor == rotation_func(orientation, x, y)
                    i   == 2 * (x + 8 * y)
                IN  /\ fb[cor] = frame[i]
                    /\ fb[cor + 1] = frame[i + 1]
          /\ orientation = "Deg0" => fb = frame
    /\ op.name = "set_rotation" /\ ~op.redraw => writes = 0

C16_Witness ==
    /\ op.name = "set_pixel"
    /\ ret = Ok
    /\ orientation = "Deg90"
    /\ nops = 2
    /\ fb # frame
    /\ Word(fb, 7) = Word(frame, 0)
    /\ Word(frame, 0) # 0

\* C17: a set_pixel(x, y, c) that succeeds, under any orientation, sets the two
\* frame bytes at offset 2 * (x + 8y) to the packed c (low byte first), leaves
\* the other 126 bytes and the orientation as they were, and writes the device
\* exactly once.
C17_SetPixelTouchesOneCell ==
    op.name = "set_pixel" /\ ret = Ok =>
        LET pos == 2 * (op.x + 8 * op.y)
        IN  /\ frame[pos] + 256 * frame[pos + 1] = Pack565(op.p)
            /\ \A i \in 0..127 : i \notin { pos, pos + 1 } => frame[i] = pre.frame[i]
            /\ orientation = pre.orientation
            /\ writes = 1

C17_Witness ==
    /\ op = [name |-> "set_pixel", x |-> 7, y |-> 5, p |-> Red]
    /\ ret = Ok
    /\ orientation = "Deg270"
    /\ pre.frame = PackFrame(Smile)
    /\ frame # pre.frame
    /\ Word(frame, 47) = Pack565(Red)

\* C18: flip_h(true) and flip_v(true) only move the 16-bit words of the frame:
\* after flip_h(true) the word of cell (7 - x) + 8y is the word cell x + 8y
\* held before the call, and after flip_v(true) the word of cell x + 8(7 - y)
\* is the word cell x + 8y held before, on every frame set_pixel, set_pixels
\* and clear can leave; that is, packing the unpacked word gives the word back.
C18_FlipMovesWords ==
    op.name \in { "flip_h", "flip_v" } /\ op.redraw =>
        \A x \in InBounds, y \in InBounds :
            Word(frame, IF op.name = "flip_h" THEN (7 - x) + 8 * y
                        ELSE x + 8 * (7 - y))
                = Word(pre.frame, x + 8 * y)

====
